---- MODULE Spec2Model ----
(***************************************************************************)
(* Omi Python SDK: the capture / transcribe / react pipeline.              *)
(*                                                                         *)
(*   sdks/python/main.py            audio_queue, handle_ble_data           *)
(*   sdks/python/omi/transcribe.py  transcribe, send_audio,                *)
(*                                  receive_transcripts                    *)
(*   sdks/python/memory.py          _execute_system_command, cooldown,     *)
(*                                  detect_hot_command, detect_hot_phrase, *)
(*                                  process_transcript_for_memory,         *)
(*                                  create_memory                          *)
(*   sdks/python/omi/decoder.py     OmiOpusDecoder.decode_packet           *)
(*   sdks/python/transcript_ui.py   TranscriptWindow (window, is_running)  *)
(*                                                                         *)
(* Time is counted in whole seconds.  asyncio runs one task at a time and  *)
(* switches tasks only at an await, so every action below is the code      *)
(* between two awaits.                                                     *)
(***************************************************************************)
EXTENDS Integers, Sequences, FiniteSets, TLC

\* ------------------------------------------------------------------ bounds
\* packets the BLE transport delivers in one run
MaxPackets == 3
\* inbound websocket messages the service sends in one run
MaxMsgs == 2
\* a candidate capacity for the frame queue (below MaxPackets)
Capacity == 2
\* last second of the wall clock, and dispatches in one run
MaxTime == 7
MaxDispatches == 4
\* transcripts handed to process_transcript_for_memory in one run
MaxTranscripts == 2
\* decode_packet calls in one run
MaxDecodes == 3

\* -------------------------------------------------------- program constants
\* asyncio.sleep(5) in the except handler of transcribe
RETRY_DELAY == 5
\* COMMAND_COOLDOWN = 3.0
COMMAND_COOLDOWN == 3
\* Queue(): asyncio.Queue(maxsize=0); a maxsize <= 0 means "never full"
maxsize == 0

VARIABLES
    \* main.py
    audio_queue,     \* frames waiting in the asyncio.Queue, head first
    counter,         \* handle_ble_data.counter: frames pushed so far
    npackets,        \* packets delivered by the transport so far
    \* transcribe.py: the three coroutines and the websocket
    tpc,             \* transcribe: loop_top, connecting, streaming, sleeping,
                     \*             cancelled, raised
    spc,             \* send_audio: none, get, send, done
    rpc,             \* receive_transcripts: none, iter, callback, done
    conn,            \* websocket: none, open, closed
    chunk,           \* the frame send_audio holds (0: none)
    sleep_left,      \* seconds left of asyncio.sleep(5)
    nmsgs,           \* inbound messages received so far
    curMsg,          \* index in Messages of the message last received (0: none)
    cbRunning,       \* ids of the messages whose on_transcript call is running
    \* observations of the run (not read by the program)
    handed,          \* frames passed to ws.send, in call order
    cbCount,         \* on_transcript calls made for the message last received
    cbArg,           \* the argument of the last on_transcript call
    cbLog,           \* ids of the messages on_transcript was called for, in call order
    skipped,         \* a message of this connection was skipped on an error
    lastOutcome,     \* outcome of the message last received on this connection
    functional,      \* OmiOpusDecoder.functional: TRUE native, FALSE fallback
    lastLeft,        \* why transcribe last left a connection (attempt)
    sinceLeft,       \* seconds since then, saturating at RETRY_DELAY
    cancelled_in,    \* where transcribe was when its task was cancelled
    status,          \* the message of the last status_callback call
    lost,            \* frames whose ws.send call raised
    \* memory.py
    platform,        \* sys.platform
    now,             \* time.time()
    last_command_time, \* _last_command_time: command_key -> time
    launches,        \* successful subprocess.Popen calls: <<key, time>>
    dispatch,        \* the last _execute_system_command call and its outcome
    semantic_available, \* SEMANTIC_MATCHING_AVAILABLE
    mpc,             \* process_transcript_for_memory: idle, remote
    nproc,           \* transcripts handed to process_transcript_for_memory
    processed,       \* the last process_transcript_for_memory call
    local_store,     \* entries of local_memories.jsonl, oldest first
    \* omi/decoder.py
    ndecodes,        \* decode_packet calls so far
    decoded,         \* the last decode_packet call and what it returned
    first,           \* packet -> frame its first fallback decode returned
    OPUSLIB_AVAILABLE, \* the import-time probe of opuslib succeeded
    construction,    \* OmiOpusDecoder(): whether it ran, and how it went
    \* transcript_ui.py, main.py
    ui_root,         \* TranscriptWindow.root: "None" or "Tk"
    ui_running,      \* TranscriptWindow.running
    ui_thread,       \* the UI thread: started, mainloop, ended
    window_closed,   \* _on_closing has run
    monitor          \* monitor_ui: polling, done

streamVars == <<audio_queue, counter, npackets, tpc, spc, rpc, conn, chunk,
                sleep_left, nmsgs, curMsg, cbRunning, handed, cbCount, cbArg,
                cbLog, skipped, lastOutcome, functional, lastLeft,
                sinceLeft, cancelled_in, status, lost>>
cmdVars == <<platform, now, last_command_time, launches, dispatch>>
reactVars == <<semantic_available, mpc, nproc, processed, local_store>>
decVars == <<ndecodes, decoded, first, OPUSLIB_AVAILABLE, construction>>
uiVars == <<ui_root, ui_running, ui_thread, window_closed, monitor>>
vars == <<streamVars, cmdVars, reactVars, decVars, uiVars>>

\* ------------------------------------------------------------ exceptions
\* exception classes that "except Exception" catches, among those raised
\* here: opuslib's OpusError and the other errors derive from Exception,
\* asyncio.CancelledError derives from BaseException
ExceptionClasses == {"OpusError", "ValueError", "OSError"}

\* variant of Caught: CancelledError as a subclass of Exception (Python 3.7)
CaughtWithCancelled(exc) ==
    exc \in ExceptionClasses \cup {"CancelledError"}

\* variant of Caught: only errors of the codec's own class are handled
CaughtOpusErrorOnly(exc) ==
    exc = "OpusError"

\* "except Exception" around a block that raises exc
Caught(exc) ==
    exc \in ExceptionClasses

\* ------------------------------------------------------------ main.py
\* decoder.decode_packet seen from the queue: the frame is non-empty iff the
\* packet is longer than its 3-byte header and, in native mode, the codec
\* did not raise (the fallback synthesizes a frame from any payload)
DecodedNonEmpty(len, codec_ok) ==
    len > 3 /\ (functional => codec_ok)

\* asyncio.Queue.full(): a queue built with maxsize <= 0 is never full
QueueFull(q) ==
    maxsize > 0 /\ Len(q) >= maxsize

\* audio_queue.put_nowait(decoded_pcm): the queue after the call
PutNowait(q, frame) ==
    Append(q, frame)

\* handle_ble_data(sender, data): decode, and push a non-empty frame; a
\* QueueFull raised by put_nowait is caught and the frame is dropped
HandleBleData(len, codec_ok) ==
    /\ npackets < MaxPackets
    /\ npackets' = npackets + 1
    /\ IF DecodedNonEmpty(len, codec_ok) /\ ~QueueFull(audio_queue)
          THEN /\ audio_queue' = PutNowait(audio_queue, counter + 1)
               /\ counter' = counter + 1
          ELSE UNCHANGED <<audio_queue, counter>>
    /\ UNCHANGED <<tpc, spc, rpc, conn, chunk, sleep_left, nmsgs, curMsg,
                   cbRunning, handed, cbCount, cbArg, cbLog, skipped,
                   lastOutcome, functional, lastLeft, sinceLeft>>
    /\ UNCHANGED <<cancelled_in, status, lost>>
    /\ UNCHANGED cmdVars
    /\ UNCHANGED <<reactVars, decVars, uiVars>>

\* ------------------------------------------------- transcribe.py: transcribe
\* variant of ExceptHandler: the loop starts over without the sleep
ExceptHandlerNoDelay(why, status_raises) ==
    /\ status' = "retrying"
    /\ tpc' = IF status_raises THEN "raised" ELSE "sleeping"
    /\ sleep_left' = 0
    /\ lastLeft' = why
    /\ sinceLeft' = 0

\* the except handler of the retry loop (lines 71-76): the "retrying" status
\* call, which may raise out of transcribe, then asyncio.sleep(5)
ExceptHandler(why, status_raises) ==
    /\ status' = "retrying"
    /\ tpc' = IF status_raises THEN "raised" ELSE "sleeping"
    /\ sleep_left' = IF status_raises THEN 0 ELSE RETRY_DELAY
    /\ lastLeft' = why
    /\ sinceLeft' = 0

\* top of the loop: the "connecting" status call, then websockets.connect
Connect ==
    /\ tpc = "loop_top"
    /\ \E raises \in BOOLEAN, raises2 \in BOOLEAN :
          IF raises
             THEN ExceptHandler("status_error", raises2)
             ELSE /\ ~raises2
                  /\ status' = "connecting"
                  /\ tpc' = "connecting"
                  /\ UNCHANGED <<sleep_left, lastLeft, sinceLeft>>
    /\ UNCHANGED <<audio_queue, counter, npackets, spc, rpc, conn, chunk,
                   nmsgs, curMsg, cbRunning, handed, cbCount, cbArg,
                   cbLog, skipped, lastOutcome, functional>>
    /\ UNCHANGED <<cancelled_in, lost>>
    /\ UNCHANGED cmdVars
    /\ UNCHANGED <<reactVars, decVars, uiVars>>

\* the connection is established: the "connected" status call, then
\* gather(send_audio(), receive_transcripts()) starts both coroutines
ConnectOk ==
    /\ tpc = "connecting"
    /\ \E raises \in BOOLEAN, raises2 \in BOOLEAN :
          IF raises
             THEN /\ ExceptHandler("status_error", raises2)
                  /\ UNCHANGED <<spc, rpc, conn, skipped, lastOutcome>>
             ELSE /\ ~raises2
                  /\ status' = "connected"
                  /\ tpc' = "streaming"
                  /\ conn' = "open"
                  /\ spc' = "get"
                  /\ rpc' = "iter"
                  /\ skipped' = FALSE
                  /\ lastOutcome' = "none"
                  /\ UNCHANGED <<sleep_left, lastLeft, sinceLeft>>
    /\ UNCHANGED <<audio_queue, counter, npackets, chunk, nmsgs, curMsg,
                   cbRunning, handed, cbCount, cbArg, cbLog, functional>>
    /\ UNCHANGED <<cancelled_in, lost>>
    /\ UNCHANGED cmdVars
    /\ UNCHANGED <<reactVars, decVars, uiVars>>

\* websockets.connect raises: the except handler runs
ConnectFail ==
    /\ tpc = "connecting"
    /\ \E raises2 \in BOOLEAN : ExceptHandler("connect_failed", raises2)
    /\ UNCHANGED <<audio_queue, counter, npackets, spc, rpc, conn, chunk,
                   nmsgs, curMsg, cbRunning, handed, cbCount, cbArg,
                   cbLog, skipped, lastOutcome, functional>>
    /\ UNCHANGED <<cancelled_in, lost>>
    /\ UNCHANGED cmdVars
    /\ UNCHANGED <<reactVars, decVars, uiVars>>

\* variant of GatherDone: the block is left as soon as one of the coroutines
\* has finished, the other is left running
GatherFirstDone ==
    /\ tpc = "streaming"
    /\ spc = "done" \/ rpc = "done"
    /\ tpc' = "loop_top"
    /\ conn' = "none"
    /\ spc' = IF spc = "done" THEN "none" ELSE spc
    /\ rpc' = IF rpc = "done" THEN "none" ELSE rpc
    /\ lastLeft' = "stream_end"
    /\ sinceLeft' = 0
    /\ UNCHANGED <<audio_queue, counter, npackets, chunk, sleep_left, nmsgs,
                   curMsg, cbRunning, handed, cbCount, cbArg, cbLog,
                   skipped, lastOutcome, functional>>
    /\ UNCHANGED <<cancelled_in, status, lost>>
    /\ UNCHANGED cmdVars
    /\ UNCHANGED <<reactVars, decVars, uiVars>>

\* gather returns when both coroutines have finished; both swallow their
\* errors, so the async with block is left without an exception (the
\* connection is closed on the way out) and the while loop starts over
GatherDone ==
    /\ tpc = "streaming"
    /\ spc = "done"
    /\ rpc = "done"
    /\ tpc' = "loop_top"
    /\ conn' = "none"
    /\ spc' = "none"
    /\ rpc' = "none"
    /\ lastLeft' = "stream_end"
    /\ sinceLeft' = 0
    /\ UNCHANGED <<audio_queue, counter, npackets, chunk, sleep_left, nmsgs,
                   curMsg, cbRunning, handed, cbCount, cbArg, cbLog,
                   skipped, lastOutcome, functional>>
    /\ UNCHANGED <<cancelled_in, status, lost>>
    /\ UNCHANGED cmdVars
    /\ UNCHANGED <<reactVars, decVars, uiVars>>

\* asyncio.sleep(5) is over: back to the top of the loop
SleepDone ==
    /\ tpc = "sleeping"
    /\ sleep_left = 0
    /\ tpc' = "loop_top"
    /\ UNCHANGED <<audio_queue, counter, npackets, spc, rpc, conn, chunk,
                   sleep_left, nmsgs, curMsg, cbRunning, handed, cbCount,
                   cbArg, cbLog, skipped, lastOutcome, functional,
                   lastLeft, sinceLeft>>
    /\ UNCHANGED <<cancelled_in, status, lost>>
    /\ UNCHANGED cmdVars
    /\ UNCHANGED <<reactVars, decVars, uiVars>>

\* one second passes
Tick ==
    /\ sleep_left > 0 \/ sinceLeft < RETRY_DELAY
    /\ sleep_left' = IF sleep_left > 0 THEN sleep_left - 1 ELSE 0
    /\ sinceLeft' = IF sinceLeft < RETRY_DELAY THEN sinceLeft + 1 ELSE sinceLeft
    /\ UNCHANGED <<audio_queue, counter, npackets, tpc, spc, rpc, conn, chunk,
                   nmsgs, curMsg, cbRunning, handed, cbCount, cbArg,
                   cbLog, skipped, lastOutcome, functional, lastLeft>>
    /\ UNCHANGED <<cancelled_in, status, lost>>
    /\ UNCHANGED cmdVars
    /\ UNCHANGED <<reactVars, decVars, uiVars>>

\* the task running transcribe is cancelled (main.py, monitor_ui): a
\* CancelledError is raised at the await the task, or the coroutines it
\* gathers, are waiting at. Not caught by the "except Exception" clauses on
\* its way, it ends both coroutines and the task (a frame whose send was
\* under way is given up with the call), and the connection is
\* closed on the way out of the async with block. Caught, it would be taken
\* for one more error: the retry handler would run (from its own sleep alone
\* it escapes)
CancelTasks ==
    /\ tpc \in {"loop_top", "connecting", "streaming", "sleeping"}
    /\ cancelled_in = [tpc |-> "none"]
    /\ cancelled_in' = [tpc |-> tpc, spc |-> spc, rpc |-> rpc]
    /\ IF Caught("CancelledError") /\ tpc # "sleeping"
          THEN /\ tpc' = "sleeping"
               /\ sleep_left' = RETRY_DELAY
          ELSE /\ tpc' = "cancelled"
               /\ sleep_left' = 0
    /\ spc' = "none"
    /\ rpc' = "none"
    /\ conn' = "none"
    /\ lost' = IF chunk # 0 THEN lost \cup {chunk} ELSE lost
    /\ chunk' = 0
    /\ cbRunning' = {}
    /\ UNCHANGED <<audio_queue, counter, npackets, nmsgs, curMsg, handed,
                   cbCount, cbArg, cbLog, skipped, lastOutcome,
                   functional, lastLeft, sinceLeft, status>>

\* the cancellation alone, whoever asks for it
Cancel ==
    /\ CancelTasks
    /\ UNCHANGED cmdVars
    /\ UNCHANGED <<reactVars, decVars, uiVars>>

\* the service or the network closes the websocket
ConnectionLost ==
    /\ tpc = "streaming"
    /\ conn = "open"
    /\ conn' = "closed"
    /\ UNCHANGED <<audio_queue, counter, npackets, tpc, spc, rpc, chunk,
                   sleep_left, nmsgs, curMsg, cbRunning, handed, cbCount,
                   cbArg, cbLog, skipped, lastOutcome, functional,
                   lastLeft, sinceLeft>>
    /\ UNCHANGED <<cancelled_in, status, lost>>
    /\ UNCHANGED cmdVars
    /\ UNCHANGED <<reactVars, decVars, uiVars>>

\* ------------------------------------------------ transcribe.py: send_audio
\* variant of QueueGet: a queue that hands out its newest item first
GetNewest(q) ==
    [item |-> q[Len(q)], rest |-> SubSeq(q, 1, Len(q) - 1)]

\* audio_queue.get(): the item taken and the queue left
QueueGet(q) ==
    [item |-> Head(q), rest |-> Tail(q)]

\* chunk = await audio_queue.get(), then ws.send(chunk) is called
GetFrame ==
    /\ tpc = "streaming"
    /\ spc = "get"
    /\ audio_queue # <<>>
    /\ chunk' = QueueGet(audio_queue).item
    /\ audio_queue' = QueueGet(audio_queue).rest
    /\ handed' = Append(handed, QueueGet(audio_queue).item)
    /\ spc' = "send"
    /\ UNCHANGED <<counter, npackets, tpc, rpc, conn, sleep_left, nmsgs,
                   curMsg, cbRunning, cbCount, cbArg, cbLog, skipped,
                   lastOutcome, functional, lastLeft, sinceLeft>>
    /\ UNCHANGED <<cancelled_in, status, lost>>
    /\ UNCHANGED cmdVars
    /\ UNCHANGED <<reactVars, decVars, uiVars>>

\* variant of SendDone: a frame whose send raised is put back at the head
\* of the queue
SendDoneRequeue ==
    /\ tpc = "streaming"
    /\ spc = "send"
    /\ spc' = IF conn = "open" THEN "get" ELSE "done"
    /\ lost' = IF conn = "open" THEN lost ELSE lost \cup {chunk}
    /\ audio_queue' = IF conn = "open" THEN audio_queue
                       ELSE <<chunk>> \o audio_queue
    /\ chunk' = 0
    /\ UNCHANGED <<counter, npackets, tpc, rpc, conn, sleep_left,
                   nmsgs, curMsg, cbRunning, handed, cbCount, cbArg,
                   cbLog, skipped, lastOutcome, functional, lastLeft,
                   sinceLeft>>
    /\ UNCHANGED <<cancelled_in, status>>
    /\ UNCHANGED cmdVars
    /\ UNCHANGED <<reactVars, decVars, uiVars>>

\* await ws.send(chunk) ends: on an open connection the loop goes on to the
\* next get; on a closed one send raises, the error is printed and the loop
\* is left (break); the frame is gone either way
SendDone ==
    /\ tpc = "streaming"
    /\ spc = "send"
    /\ spc' = IF conn = "open" THEN "get" ELSE "done"
    /\ lost' = IF conn = "open" THEN lost ELSE lost \cup {chunk}
    /\ chunk' = 0
    /\ UNCHANGED <<audio_queue, counter, npackets, tpc, rpc, conn, sleep_left,
                   nmsgs, curMsg, cbRunning, handed, cbCount, cbArg,
                   cbLog, skipped, lastOutcome, functional, lastLeft,
                   sinceLeft>>
    /\ UNCHANGED <<cancelled_in, status>>
    /\ UNCHANGED cmdVars
    /\ UNCHANGED <<reactVars, decVars, uiVars>>

\* --------------------------------------- transcribe.py: receive_transcripts
\* Inbound websocket messages.  A text is a sequence of characters.  kind:
\* "text" is no JSON at all, "number" is JSON but no object, "object" is a
\* JSON object, given as a record.
Whitespace == {" ", "\n"}

Messages == <<
    [kind |-> "text"],
    [kind |-> "number"],
    [kind |-> "object", response |-> [error |-> "bad request"]],
    [kind |-> "object", response |->
        [error |-> "bad request",
         channel |-> [alternatives |-> << [transcript |-> <<"h", "i">>] >>]]],
    [kind |-> "object", response |->
        [channel |-> [alternatives |-> << [transcript |-> <<"h", "i">>] >>]]],
    [kind |-> "object", response |->
        [channel |-> [alternatives |->
            << [transcript |-> <<" ", "h", " ", "i", "\n">>] >>]]],
    [kind |-> "object", response |->
        [channel |-> [alternatives |-> << [transcript |-> <<>>] >>]]],
    [kind |-> "object", response |->
        [channel |-> [alternatives |-> << [transcript |-> <<" ", "\n">>] >>]]],
    [kind |-> "object", response |-> [channel |-> [alternatives |-> <<>>]]],
    [kind |-> "object", response |->
        [channel |-> [alternatives |-> << [confidence |-> 1] >>]]],
    [kind |-> "object", response |-> [channel |-> [speaker |-> 1]]],
    [kind |-> "object", response |-> [type |-> "Metadata"]],
    [kind |-> "object", response |->
        [channel |-> [alternatives |->
            << [transcript |-> <<" ">>], [transcript |-> <<"h", "i">>] >>]]]
>>

\* str.strip()
RECURSIVE lstrip(_)
lstrip(s) ==
    IF s # <<>> /\ Head(s) \in Whitespace THEN lstrip(Tail(s)) ELSE s

RECURSIVE rstrip(_)
rstrip(s) ==
    IF s # <<>> /\ s[Len(s)] \in Whitespace
        THEN rstrip(SubSeq(s, 1, Len(s) - 1))
        ELSE s

strip(s) == rstrip(lstrip(s))

\* response["channel"]["alternatives"][0].get("transcript", "")
FirstTranscript(response) ==
    LET alt == response.channel.alternatives[1]
    IN  IF "transcript" \in DOMAIN alt THEN alt.transcript ELSE <<>>

\* variant of HasText: "if transcript" alone, without the strip() test
HasTextUnstripped(transcript) ==
    transcript # <<>>

\* if transcript and transcript.strip()
HasText(transcript) ==
    transcript # <<>> /\ strip(transcript) # <<>>

\* transcript = transcript.strip(): what on_transcript is called with
CallbackArg(transcript) ==
    strip(transcript)

\* the body of the async for loop, up to the on_transcript call:
\*   decode_error   json.loads raised JSONDecodeError (printed)
\*   process_error  another exception was raised and caught (printed)
\*   error          the response has an "error" key (printed, continue)
\*   ignored        no channel / alternatives
\*   no_transcript  the first alternative's transcript is empty or blank
\*   callback       on_transcript is called
Outcome(m) ==
    IF m.kind = "text" THEN "decode_error"
    ELSE IF m.kind = "number" THEN "process_error"
    ELSE IF "error" \in DOMAIN m.response THEN "error"
    ELSE IF ~("channel" \in DOMAIN m.response) THEN "ignored"
    ELSE IF ~("alternatives" \in DOMAIN m.response.channel) THEN "ignored"
    ELSE IF Len(m.response.channel.alternatives) = 0 THEN "process_error"
    ELSE IF HasText(FirstTranscript(m.response)) THEN "callback"
    ELSE "no_transcript"

\* the outcomes that are an error caught inside the loop
LoopError(outcome) ==
    outcome \in {"decode_error", "process_error", "error", "callback_error"}

\* variant of AfterMessage: a loop whose handlers leave it on an error
AfterMessageBreakOnError(outcome) ==
    IF outcome = "callback" THEN "callback"
    ELSE IF outcome \in {"decode_error", "process_error", "error"} THEN "done"
    ELSE "iter"

\* where receive_transcripts is after the body has run for a message
AfterMessage(outcome) ==
    IF outcome = "callback" THEN "callback" ELSE "iter"

\* variant of RecvReady: on_transcript started without being awaited
RecvReadyNoAwait ==
    rpc \in {"iter", "callback"}

\* the loop takes the next message only at "async for msg in ws": the
\* on_transcript call is awaited
RecvReady ==
    rpc = "iter"

\* async for msg in ws yields the next inbound message
RecvMsg(i) ==
    /\ tpc = "streaming"
    /\ RecvReady
    /\ conn = "open"
    /\ nmsgs < MaxMsgs
    /\ nmsgs' = nmsgs + 1
    /\ curMsg' = i
    /\ skipped' = (skipped \/ LoopError(lastOutcome))
    /\ lastOutcome' = Outcome(Messages[i])
    /\ rpc' = AfterMessage(Outcome(Messages[i]))
    /\ IF Outcome(Messages[i]) = "callback"
          THEN /\ cbRunning' = cbRunning \cup {nmsgs + 1}
               /\ cbCount' = 1
               /\ cbArg' = CallbackArg(FirstTranscript(Messages[i].response))
               /\ cbLog' = Append(cbLog, nmsgs + 1)
          ELSE /\ cbCount' = 0
               /\ cbArg' = <<>>
               /\ UNCHANGED <<cbRunning, cbLog>>
    /\ UNCHANGED <<audio_queue, counter, npackets, tpc, spc, conn, chunk,
                   sleep_left, handed, functional, lastLeft, sinceLeft>>
    /\ UNCHANGED <<cancelled_in, status, lost>>
    /\ UNCHANGED cmdVars
    /\ UNCHANGED <<reactVars, decVars, uiVars>>

\* await on_transcript(transcript) returns or raises; an exception is caught
\* and printed, and the loop goes on to the next message
CallbackEnd(raised) ==
    /\ tpc = "streaming"
    /\ rpc = "callback"
    /\ cbRunning # {}
    /\ \E id \in cbRunning : cbRunning' = cbRunning \ {id}
    /\ rpc' = "iter"
    /\ lastOutcome' = IF raised THEN "callback_error" ELSE "callback_ok"
    /\ UNCHANGED <<audio_queue, counter, npackets, tpc, spc, conn, chunk,
                   sleep_left, nmsgs, curMsg, handed, cbCount, cbArg,
                   cbLog, skipped, functional, lastLeft, sinceLeft>>
    /\ UNCHANGED <<cancelled_in, status, lost>>
    /\ UNCHANGED cmdVars
    /\ UNCHANGED <<reactVars, decVars, uiVars>>

\* the iteration over a closed websocket ends (normally or with
\* ConnectionClosed, which is caught): receive_transcripts returns
RecvClosed ==
    /\ tpc = "streaming"
    /\ rpc = "iter"
    /\ conn = "closed"
    /\ rpc' = "done"
    /\ UNCHANGED <<audio_queue, counter, npackets, tpc, spc, conn, chunk,
                   sleep_left, nmsgs, curMsg, cbRunning, handed, cbCount,
                   cbArg, cbLog, skipped, lastOutcome, functional,
                   lastLeft, sinceLeft>>
    /\ UNCHANGED <<cancelled_in, status, lost>>
    /\ UNCHANGED cmdVars
    /\ UNCHANGED <<reactVars, decVars, uiVars>>

\* ------------------------------------------------------------- memory.py
\* argument vectors, each token a sequence of characters; the last two
\* differ as lists and join to the same command_key
CommandLists == {
    << <<"n">> >>,
    << <<"c">> >>,
    << <<"c">>, <<"x">> >>,
    << <<"c", " ", "x">> >>
}

\* " ".join(command_list)
RECURSIVE JoinSpace(_)
JoinSpace(list) ==
    IF list = <<>> THEN <<>>
    ELSE IF Len(list) = 1 THEN list[1]
    ELSE list[1] \o <<" ">> \o JoinSpace(Tail(list))

\* variant of OnCooldown: "<=" for "<"
OnCooldownInclusive(command_key, current_time) ==
    /\ command_key \in DOMAIN last_command_time
    /\ current_time - last_command_time[command_key] <= COMMAND_COOLDOWN

\* the cooldown check of _execute_system_command (lines 373-377)
OnCooldown(command_key, current_time) ==
    /\ command_key \in DOMAIN last_command_time
    /\ current_time - last_command_time[command_key] < COMMAND_COOLDOWN

\* time of the last successful launch of command_key, -1 if there is none
RECURSIVE LastLaunch(_, _)
LastLaunch(log, command_key) ==
    IF log = <<>> THEN -1
    ELSE IF log[Len(log)][1] = command_key THEN log[Len(log)][2]
    ELSE LastLaunch(SubSeq(log, 1, Len(log) - 1), command_key)

\* variant of CommandOutcome: the platform is not looked at
CommandOutcomeAnyPlatform(command_key, current_time, popen) ==
    IF OnCooldown(command_key, current_time) THEN "cooldown"
    ELSE IF popen = "ok" THEN "launched"
    ELSE popen

\* what one _execute_system_command call does for command_key at
\* current_time; popen is what subprocess.Popen does when it is called:
\* "ok", "not_found" (FileNotFoundError) or "error" (another exception)
CommandOutcome(command_key, current_time, popen) ==
    IF OnCooldown(command_key, current_time) THEN "cooldown"
    ELSE IF platform # "win32" THEN "unsupported"
    ELSE IF popen = "ok" THEN "launched"
    ELSE popen

\* variant of Executed: a call skipped by the cooldown restarts the window
ExecutedExtending(command_key, current_time, outcome, calls) ==
    /\ dispatch' = [n |-> dispatch.n + calls,
                    key |-> command_key,
                    time |-> current_time,
                    prior |-> LastLaunch(launches, command_key),
                    outcome |-> outcome]
    /\ launches' = IF outcome = "launched"
                      THEN Append(launches, <<command_key, current_time>>)
                      ELSE launches
    /\ IF outcome \in {"launched", "cooldown"}
          THEN last_command_time' =
                      [k \in DOMAIN last_command_time \cup {command_key} |->
                          IF k = command_key THEN current_time
                          ELSE last_command_time[k]]
          ELSE UNCHANGED last_command_time

\* the effect of `calls` _execute_system_command calls made at
\* current_time for command_key, all with the given outcome (a launch
\* is the last call of its caller)
Executed(command_key, current_time, outcome, calls) ==
    /\ dispatch' = [n |-> dispatch.n + calls,
                    key |-> command_key,
                    time |-> current_time,
                    prior |-> LastLaunch(launches, command_key),
                    outcome |-> outcome]
    /\ IF outcome = "launched"
          THEN /\ launches' = Append(launches, <<command_key, current_time>>)
               /\ last_command_time' =
                      [k \in DOMAIN last_command_time \cup {command_key} |->
                          IF k = command_key THEN current_time
                          ELSE last_command_time[k]]
          ELSE UNCHANGED <<launches, last_command_time>>

\* _execute_system_command(command_list, description)
ExecuteSystemCommand(command_list, popen) ==
    LET command_key == JoinSpace(command_list)
        current_time == now
    IN  /\ dispatch.n < MaxDispatches
        /\ Executed(command_key, current_time,
                    CommandOutcome(command_key, current_time, popen), 1)
        /\ UNCHANGED <<platform, now>>
        /\ UNCHANGED streamVars
        /\ UNCHANGED <<reactVars, decVars, uiVars>>

\* time.time() advances by a second (the clock is taken not to run backwards)
ClockTick ==
    /\ now < MaxTime
    /\ now' = now + 1
    /\ UNCHANGED <<platform, last_command_time, launches, dispatch>>
    /\ UNCHANGED streamVars
    /\ UNCHANGED <<reactVars, decVars, uiVars>>

\* time.time() between two transcripts: the next one comes right away, or
\* a cooldown later
Elapse ==
    /\ now + COMMAND_COOLDOWN <= MaxTime
    /\ now' = now + COMMAND_COOLDOWN
    /\ UNCHANGED <<platform, last_command_time, launches, dispatch>>
    /\ UNCHANGED streamVars
    /\ UNCHANGED <<reactVars, decVars, uiVars>>

\* ------------------------------------------- memory.py: transcripts
\* a transcript is a sequence of characters
UpperCase == <<"A", "B", "C", "D", "E", "F", "G", "H", "I", "J", "K",
               "L", "M", "N", "O", "P", "Q", "R", "S", "T", "U", "V",
               "W", "X", "Y", "Z">>
LowerCase == <<"a", "b", "c", "d", "e", "f", "g", "h", "i", "j", "k",
               "l", "m", "n", "o", "p", "q", "r", "s", "t", "u", "v",
               "w", "x", "y", "z">>

\* str.lower(), character by character
lower(s) ==
    [i \in DOMAIN s |->
        IF \E k \in DOMAIN UpperCase : UpperCase[k] = s[i]
            THEN LowerCase[CHOOSE k \in DOMAIN UpperCase : UpperCase[k] = s[i]]
            ELSE s[i]]

\* "sub in s" on strings
In(sub, s) ==
    \E i \in 0..(Len(s) - Len(sub)) : SubSeq(s, i + 1, i + Len(sub)) = sub

\* the transcripts handed to process_transcript_for_memory: those of
\* test_enhanced_commands.py, test_semantic.py and test.py, and some more
Transcripts == <<
    <<"h", "e", "y", " ", "o", "m", "i", " ", "o", "p", "e", "n", " ",
      "n", "o", "t", "e", "p", "a", "d">>,
    <<"o", "p", "e", "n", " ", "n", "o", "t", "e", "s">>,
    <<"O", "p", "e", "n", " ", "n", "o", "t", "e", "p", "a", "d", ".">>,
    <<"j", "u", "s", "t", " ", "o", "p", "e", "n", " ", "n", "o", "t",
      "e", "p", "a", "d">>,
    <<"O", "h", ",", " ", "m", "e", ".">>,
    <<"H", "e", "y", ",", " ", "a", "r", "m", "y", ".">>,
    <<"A", "r", "m", "y", ".", " ", "O", "p", "e", "n", " ", "n", "o",
      "t", "e", "p", "a", "d", ".">>,
    <<"O", " ", "m", " ", "I", ".", " ", "O", "p", "e", "n", " ", "n",
      "o", "t", "e", "p", "a", "d", ".">>,
    <<"R", "e", "m", "e", "m", "b", "e", "r", " ", "t", "h", "i", "s",
      " ", "f", "o", "r", " ", "l", "a", "t", "e", "r">>,
    <<"H", "e", "y", ",", " ", "n", "o", "t", "e", " ", "t", "h", "i",
      "s", " ", "i", "m", "p", "o", "r", "t", "a", "n", "t", " ", "i",
      "n", "f", "o", "r", "m", "a", "t", "i", "o", "n">>,
    <<"t", "h", "e", " ", "w", "e", "a", "t", "h", "e", "r", " ", "i",
      "s", " ", "n", "i", "c", "e">>,
    <<"o", "m", "i", " ", "n", "o", "t", "e", " ", "t", "h", "i", "s",
      " ", "a", "n", "d", " ", "o", "p", "e", "n", " ", "n", "o", "t",
      "e", "p", "a", "d">>
>>

\* HOT_PHRASES, in declaration order: <<phrase, category>>
HOT_PHRASES == <<
    <<<<"n", "o", "t", "e", " ", "t", "h", "i", "s">>, "note">>,
    <<<<"r", "e", "m", "e", "m", "b", "e", "r", " ", "t", "h", "i", "s">>, "note">>,
    <<<<"i", "m", "p", "o", "r", "t", "a", "n", "t">>, "important">>,
    <<<<"i", "d", "e", "a">>, "idea">>,
    <<<<"t", "o", "d", "o">>, "todo">>,
    <<<<"r", "e", "m", "i", "n", "d", " ", "m", "e">>, "reminder">>,
    <<<<"s", "a", "v", "e", " ", "t", "h", "i", "s">>, "note">>
>>

\* INTENT_COMMANDS["open_notepad"]["examples"]
IntentExamples == {
    <<"h", "e", "y", " ", "o", "m", "i", " ", "o", "p", "e", "n", " ",
      "n", "o", "t", "e", "p", "a", "d">>,
    <<"o", "m", "i", ",", " ", "s", "t", "a", "r", "t", " ", "n", "o",
      "t", "e", "p", "a", "d">>,
    <<"o", "p", "e", "n", " ", "n", "o", "t", "e", "s">>,
    <<"l", "a", "u", "n", "c", "h", " ", "n", "o", "t", "e", "p", "a",
      "d", " ", "n", "o", "w">>,
    <<"c", "a", "n", " ", "y", "o", "u", " ", "o", "p", "e", "n", " ",
      "n", "o", "t", "e", "p", "a", "d">>,
    <<"h", "e", "y", " ", "o", "m", "i", " ", "l", "a", "u", "n", "c",
      "h", " ", "n", "o", "t", "e", "p", "a", "d">>,
    <<"o", "p", "e", "n", " ", "t", "h", "e", " ", "n", "o", "t", "e",
      "p", "a", "d", " ", "a", "p", "p", "l", "i", "c", "a", "t", "i",
      "o", "n">>,
    <<"s", "t", "a", "r", "t", " ", "u", "p", " ", "n", "o", "t", "e",
      "p", "a", "d", " ", "f", "o", "r", " ", "m", "e">>
}

\* omi_triggers and notepad_patterns of detect_hot_command
omi_triggers == <<
    <<"h", "e", "y", " ", "o", "m", "i">>,
    <<"o", "h", " ", "m", "e">>,
    <<"o", "m", "i">>,
    <<"a", "r", "m", "y">>,
    <<"o", " ", "m", " ", "i">>,
    <<"h", "e", "y", " ", "a", "r", "m", "y">>,
    <<"o", "n", " ", "m", "e">>,
    <<"o", "n", "l", "y">>
>>

notepad_patterns == <<
    <<"o", "p", "e", "n", " ", "n", "o", "t", "e", "p", "a", "d">>,
    <<"n", "o", "t", "e", "p", "a", "d">>,
    <<"o", "p", "e", "n", " ", "n", "o", "t", "e", "s">>,
    <<"l", "a", "u", "n", "c", "h", " ", "n", "o", "t", "e", "p", "a", "d">>,
    <<"s", "t", "a", "r", "t", " ", "n", "o", "t", "e", "p", "a", "d">>,
    <<"o", "p", "e", "n", " ", "t", "h", "e", " ", "n", "o", "t", "e",
      "p", "a", "d">>,
    <<"n", "o", "t", "e", "p", "a", "d", " ", "p", "l", "e", "a", "s", "e">>
>>

\* ["notepad.exe"], the argument vector of the open_notepad command
NotepadCommand == << <<"n", "o", "t", "e", "p", "a", "d", ".", "e", "x",
                       "e">> >>

\* ------------------------------------------- memory.py: the matchers
\* threshold = 0.8 of match_semantic_intent, in hundredths
SIMILARITY_THRESHOLD == 80

\* best cosine similarities a transcript may score against the examples,
\* in hundredths
ScoreLevels == {0, 70, 79, 80}

\* a transcript that is one of the examples scores 1.0 against it; what
\* another transcript scores depends on the embedding model
Scores ==
    [t \in DOMAIN Transcripts |->
        IF Transcripts[t] \in IntentExamples THEN {100} ELSE ScoreLevels]

\* variant of MatchSemanticIntent: ">" for ">=" at the threshold
MatchSemanticIntentStrict(model_ok, score) ==
    IF model_ok /\ score > 0 /\ score > SIMILARITY_THRESHOLD
        THEN "open_notepad"
        ELSE "none"

\* match_semantic_intent(transcript); model_ok: the sentence model and the
\* example embeddings could be loaded, score: the best similarity found
\* (open_notepad is the only intent of INTENT_COMMANDS)
MatchSemanticIntent(model_ok, score) ==
    IF model_ok /\ score > 0 /\ score >= SIMILARITY_THRESHOLD
        THEN "open_notepad"
        ELSE "none"

\* variant of HasTrigger: the wake word is not asked for
HasTriggerAlways(transcript_lower) ==
    TRUE

\* has_trigger of detect_hot_command
HasTrigger(transcript_lower) ==
    \E k \in DOMAIN omi_triggers : In(omi_triggers[k], transcript_lower)

\* the patterns of notepad_patterns that occur in the transcript
MatchingPatterns(transcript_lower) ==
    {k \in DOMAIN notepad_patterns : In(notepad_patterns[k], transcript_lower)}

\* transcript.lower().strip(), has_trigger and the matching patterns of
\* each transcript of Transcripts
TranscriptLower ==
    [t \in DOMAIN Transcripts |-> strip(lower(Transcripts[t]))]

Triggered ==
    [t \in DOMAIN Transcripts |-> HasTrigger(TranscriptLower[t])]

Patterns ==
    [t \in DOMAIN Transcripts |-> MatchingPatterns(TranscriptLower[t])]

\* detect_hot_command(Transcripts[t]): what it returns ("None" for None)
\* and the _execute_system_command calls it makes, all at the same time
\* and hence with the same outcome
DetectHotCommand(t, model_ok, score, popen) ==
    LET intent_name == IF semantic_available
                           THEN MatchSemanticIntent(model_ok, score)
                           ELSE "none"
        outcome == CommandOutcome(JoinSpace(NotepadCommand), now, popen)
        success == outcome = "launched"
        semantic_done == intent_name # "none" /\ success
        literal == Triggered[t] /\ Patterns[t] # {}
        semantic_calls == IF intent_name # "none" THEN 1 ELSE 0
        literal_calls ==
            IF semantic_done \/ ~literal THEN 0
            ELSE IF success THEN 1
            ELSE Cardinality(Patterns[t])
    IN  [result |-> IF semantic_done THEN "Executed: Open Windows Notepad"
                    ELSE IF literal /\ success THEN "Executed: open notepad"
                    ELSE "None",
         intent_name |-> intent_name,
         best_score |-> IF semantic_available /\ model_ok THEN score ELSE -1,
         semantic_calls |-> semantic_calls,
         literal_calls |-> literal_calls,
         outcome |-> IF semantic_calls + literal_calls = 0 THEN "none"
                     ELSE outcome]

\* the loop of detect_hot_phrase over HOT_PHRASES.items(), from entry k on
RECURSIVE FirstPhrase(_, _)
FirstPhrase(transcript_lower, k) ==
    IF k > Len(HOT_PHRASES) THEN "None"
    ELSE IF In(HOT_PHRASES[k][1], transcript_lower) THEN HOT_PHRASES[k][2]
    ELSE FirstPhrase(transcript_lower, k + 1)

\* variant of DetectHotPhrase: the transcript is not lower-cased
DetectHotPhraseCaseSensitive(transcript) ==
    FirstPhrase(transcript, 1)

\* detect_hot_phrase(transcript)
DetectHotPhrase(transcript) ==
    FirstPhrase(lower(transcript), 1)

\* detect_hot_phrase of each transcript of Transcripts
HotPhrase ==
    [t \in DOMAIN Transcripts |-> DetectHotPhrase(Transcripts[t])]

\* what client.post and the lines after it do in _create_via_mcp
RemoteOutcomes == {"ok", "bad_body", "status", "network_error", "timeout"}

\* _create_via_mcp(memory_data): True on a 200 whose body parses as JSON
CreateViaMcp(remote) ==
    remote = "ok"

\* variant of StoreLocally: the file is opened with "w"
StoreLocallyTruncating(store, entry) ==
    <<entry>>

\* open(memory_file, "a") and f.write(memory_entry) of _store_locally
StoreLocally(store, entry) ==
    Append(store, entry)

\* variant of StoreAttempted: the local append is made in any case
StoreAttemptedAlways(mcp_success) ==
    TRUE

\* "if not mcp_success and self.config.local_storage" of create_memory;
\* init_memory_storage sets local_storage=True
StoreAttempted(mcp_success) ==
    ~mcp_success

\* variant of ProcessTranscript: the hot phrases are looked for after a
\* command was executed, too
ProcessTranscriptBoth(t, model_ok, score, popen) ==
    LET command == DetectHotCommand(t, model_ok, score, popen)
        calls == command.semantic_calls + command.literal_calls
        category == HotPhrase[t]
        creating == category \notin {"not_run", "None"}
    IN  /\ mpc = "idle"
        /\ nproc < MaxTranscripts
        /\ nproc' = nproc + 1
        /\ IF calls > 0
              THEN Executed(JoinSpace(NotepadCommand), now, command.outcome,
                            calls)
              ELSE UNCHANGED <<dispatch, launches, last_command_time>>
        /\ mpc' = IF creating THEN "remote" ELSE "idle"
        /\ processed' = [t |-> t,
                         command |-> command,
                         category |-> category,
                         remote |-> IF creating THEN "pending" ELSE "not_run",
                         local |-> "not_run",
                         store_before |-> local_store,
                         returned |->
                            IF command.result # "None" THEN <<TRUE, "command">>
                            ELSE IF creating THEN <<>>
                            ELSE <<FALSE, "None">>]
        /\ UNCHANGED <<semantic_available, local_store, platform, now>>
        /\ UNCHANGED <<streamVars, decVars, uiVars>>

\* process_transcript_for_memory(transcript) up to the await of client.post
\* in _create_via_mcp, or to its return when no memory is to be created
ProcessTranscript(t, model_ok, score, popen) ==
    LET command == DetectHotCommand(t, model_ok, score, popen)
        calls == command.semantic_calls + command.literal_calls
        category == IF command.result # "None" THEN "not_run"
                    ELSE HotPhrase[t]
        creating == category \notin {"not_run", "None"}
    IN  /\ mpc = "idle"
        /\ nproc < MaxTranscripts
        /\ nproc' = nproc + 1
        /\ IF calls > 0
              THEN Executed(JoinSpace(NotepadCommand), now, command.outcome,
                            calls)
              ELSE UNCHANGED <<dispatch, launches, last_command_time>>
        /\ mpc' = IF creating THEN "remote" ELSE "idle"
        /\ processed' = [t |-> t,
                         command |-> command,
                         category |-> category,
                         remote |-> IF creating THEN "pending" ELSE "not_run",
                         local |-> "not_run",
                         store_before |-> local_store,
                         returned |->
                            IF command.result # "None" THEN <<TRUE, "command">>
                            ELSE IF creating THEN <<>>
                            ELSE <<FALSE, "None">>]
        /\ UNCHANGED <<semantic_available, local_store, platform, now>>
        /\ UNCHANGED <<streamVars, decVars, uiVars>>

\* create_memory from the answer to client.post on: _create_via_mcp ends,
\* _store_locally runs if it is called (local_ok: open and write work),
\* and process_transcript_for_memory returns (success, category)
RemoteDone(remote, local_ok) ==
    LET mcp_success == CreateViaMcp(remote)
        stored == StoreAttempted(mcp_success) /\ local_ok
        entry == <<processed.t, processed.category>>
    IN  /\ mpc = "remote"
        /\ mpc' = "idle"
        /\ local_store' = IF stored THEN StoreLocally(local_store, entry)
                          ELSE local_store
        /\ processed' = [processed EXCEPT
                            !.remote = remote,
                            !.local = IF ~StoreAttempted(mcp_success)
                                          THEN "not_run"
                                      ELSE IF local_ok THEN "ok" ELSE "failed",
                            !.returned =
                                <<IF StoreAttempted(mcp_success) THEN local_ok
                                  ELSE mcp_success,
                                  processed.category>>]
        /\ UNCHANGED <<semantic_available, nproc>>
        /\ UNCHANGED <<streamVars, cmdVars, decVars, uiVars>>


\* the UI window is closed (main.py, monitor_ui): the transcribe task is
\* cancelled, and with it the transcript callback it is awaiting, if any;
\* run() then closes the storage client (cleanup_memory_storage). A
\* CancelledError raised at "await self.client.post" meets the
\* "except Exception" of _create_via_mcp: caught, the write would count as
\* failed and the local append would follow; not caught, it leaves
\* create_memory and process_transcript_for_memory
Shutdown(local_ok) ==
    /\ mpc \in {"idle", "remote"}
    /\ mpc' = "closed"
    /\ IF mpc = "idle"
          THEN /\ local_ok
               /\ UNCHANGED <<processed, local_store>>
          ELSE IF Caught("CancelledError")
          THEN /\ local_store' =
                      IF local_ok
                          THEN Append(local_store,
                                      <<processed.t, processed.category>>)
                          ELSE local_store
               /\ processed' = [processed EXCEPT
                                   !.remote = "network_error",
                                   !.local = IF local_ok THEN "ok"
                                             ELSE "failed",
                                   !.returned =
                                       <<local_ok, processed.category>>]
          ELSE /\ local_ok
               /\ processed' = [processed EXCEPT !.remote = "aborted"]
               /\ UNCHANGED local_store
    /\ UNCHANGED <<semantic_available, nproc>>
    /\ UNCHANGED <<streamVars, cmdVars, decVars, uiVars>>

\* ------------------------------------------------------ omi/decoder.py
\* raw packets (bytes): empty, a bare 3-byte header, and payloads of 1, 3,
\* 4 and 5 bytes behind a header; the last three hold the middle byte
\* value, the lowest and the highest
Packets == <<
    <<>>,
    <<184, 0, 1>>,
    <<184, 0, 2, 77>>,
    <<184, 0, 3, 0, 255, 128>>,
    <<184, 0, 4, 128, 129, 128, 129>>,
    <<184, 0, 5, 0, 255, 13, 200, 255>>,
    <<184, 0, 6, 128, 128, 128, 128>>,
    <<184, 0, 7, 0, 0, 0, 0>>,
    <<184, 0, 8, 255, 255, 255, 255>>
>>

\* frame_samples = 320
frame_samples == 320

\* samples that self.decoder.decode(clean_data, 960) may return in native
\* mode: those of a 10, 20 or 60 ms Opus frame at 16 kHz
CodecSamples == {160, 320, 960}

\* the PCM bytes opuslib returns for a frame of that many samples; what the
\* codec puts in the samples is not modelled, only how many there are
NativePcm(samples) ==
    [j \in 1..(2 * samples) |-> 0]

\* OmiOpusDecoder(): __init__ after the import-time probe. first_ok: the
\* Decoder(16000, 1) call of the try block returns (it raises if not);
\* second_ok: so does the one of the except block. Without opuslib, Decoder
\* is the stand-in class of this module, whose __init__ does not raise
Construct(first_ok, second_ok) ==
    /\ construction.done = "no"
    /\ ~OPUSLIB_AVAILABLE => first_ok
    /\ first_ok => second_ok
    /\ functional' = (OPUSLIB_AVAILABLE /\ first_ok)
    /\ construction' = [done |-> IF first_ok \/ second_ok THEN "yes"
                                 ELSE "raised",
                        init_error |-> ~first_ok]
    /\ UNCHANGED <<audio_queue, counter, npackets, tpc, spc, rpc, conn,
                   chunk, sleep_left, nmsgs, curMsg, cbRunning, handed,
                   cbCount, cbArg, cbLog, skipped, lastOutcome, lastLeft,
                   sinceLeft, cancelled_in, status, lost>>
    /\ UNCHANGED <<ndecodes, decoded, first, OPUSLIB_AVAILABLE>>
    /\ UNCHANGED <<cmdVars, reactVars, uiVars>>

\* variant of HeaderOnly: "<" for "<="
HeaderOnlyStrict(data) ==
    Len(data) < 3

\* "if len(data) <= 3" of decode_packet
HeaderOnly(data) ==
    Len(data) <= 3

\* the largest power of two that is at most n (n >= 1)
RECURSIVE Pow2Floor(_)
Pow2Floor(n) ==
    IF n < 2 THEN 1 ELSE 2 * Pow2Floor(n \div 2)

\* envelope = e / 50.0 is a double: for these e it lies under e/50 by so
\* much that base_val * envelope rounds to a double under the integer
\* (b1 + b2 - 256) * e when that integer n has n / Pow2Floor(n) above the
\* fraction given here (<<numerator, denominator>>); for every other e and n
\* the product rounds to the integer itself or lies above it
RoundsUnder(e, n) ==
    LET bound == CASE e = 29 -> <<29, 18>>
                   [] e = 35 -> <<7, 4>>
                   [] e = 41 -> <<41, 22>>
                   [] e = 47 -> <<47, 24>>
                   [] OTHER -> <<2, 1>>
    IN  n > 0 /\ n * bound[2] > bound[1] * Pow2Floor(n)

\* val of the synthesis loop for sample i:
\*   base_val = ((byte1 + byte2) / 2 - 128) * 100
\*   envelope = abs(((i * 17) % 100) - 50) / 50.0
\*   val = max(-32768, min(32767, int(base_val * envelope)))
SynthVal(byte1, byte2, i) ==
    LET m == (i * 17) % 100
        e == IF m >= 50 THEN m - 50 ELSE 50 - m
        d == byte1 + byte2 - 256
        n == (IF d < 0 THEN -d ELSE d) * e
        truncated == IF RoundsUnder(e, n) THEN n - 1 ELSE n
        val == IF d < 0 THEN -truncated ELSE truncated
    IN  IF val < -32768 THEN -32768 ELSE IF val > 32767 THEN 32767 ELSE val

\* variant of LittleEndian: the high byte first
LittleEndianSwapped(val, k) ==
    IF k = 1 THEN (val % 65536) % 256 ELSE (val % 65536) \div 256

\* val & 0xFF and (val >> 8) & 0xFF: byte k (0 low, 1 high) of val as a
\* little-endian two's complement 16-bit number
LittleEndian(val, k) ==
    IF k = 0 THEN (val % 65536) % 256 ELSE (val % 65536) \div 256

\* the frame the synthesis loop makes of a payload of 4 bytes or more
Synthesize(clean_data) ==
    [j \in 1..(2 * frame_samples) |->
        LET i == (j - 1) \div 2
            data_idx == i % Len(clean_data)
            byte1 == clean_data[data_idx + 1]
            byte2 == clean_data[((data_idx + 1) % Len(clean_data)) + 1]
        IN  LittleEndian(SynthVal(byte1, byte2, i), (j - 1) % 2)]

\* runs of random.randint(-25, 25): the generator is seeded by the system,
\* so each call of decode_packet may draw any of them
NoiseRuns == {0, 1, 2}

\* the quiet-noise frame of one run: sample i is some value in -25..25
QuietNoise(run) ==
    [j \in 1..(2 * frame_samples) |->
        LET i == (j - 1) \div 2
            val == ((i * 7 + run * 13) % 51) - 25
        IN  LittleEndian(val, (j - 1) % 2)]

\* what self.decoder.decode may raise on a payload it cannot decode
CodecErrors == {"OpusError", "ValueError"}

\* variant of FunctionalAfter: a codec error switches to the fallback
FunctionalAfterReprobe(mode, error) ==
    mode /\ ~error

\* self.functional after a decode_packet call: the method does not assign it
FunctionalAfter(mode, error) ==
    mode

\* decode_packet(Packets[p]); codec_ok, samples: whether the native codec
\* decodes the payload (it raises exc if not) and how many samples it
\* returns, run: what random draws
DecodePacket(p, codec_ok, exc, samples, run) ==
    LET data == Packets[p]
        clean_data == SubSeq(data, 4, Len(data))
        path == IF HeaderOnly(data) THEN "header_only"
                ELSE IF functional THEN "native"
                ELSE IF Len(clean_data) >= 4 THEN "synthesis"
                ELSE "noise"
        error == path = "native" /\ ~codec_ok
        escaped == error /\ ~Caught(exc)
        frame == CASE path = "header_only" -> <<>>
                   [] path = "native" ->
                        IF error THEN <<>> ELSE NativePcm(samples)
                   [] path = "synthesis" -> Synthesize(clean_data)
                   [] path = "noise" -> QuietNoise(run)
    IN  /\ construction.done = "yes"
        /\ ndecodes < MaxDecodes
        /\ path # "native" => codec_ok /\ samples = frame_samples
        /\ error => samples = frame_samples
        /\ ~error => exc = "OpusError"
        /\ path # "noise" => run = 0
        /\ ndecodes' = ndecodes + 1
        /\ decoded' = [packet |-> p, path |-> path, error |-> error,
                       escaped |-> escaped,
                       after_error |-> ndecodes > 0 /\
                                       (decoded.error \/ decoded.after_error),
                       frame |-> frame]
        /\ first' = IF functional \/ p \in DOMAIN first THEN first
                    ELSE [q \in DOMAIN first \cup {p} |->
                            IF q = p THEN frame ELSE first[q]]
        /\ functional' = FunctionalAfter(functional, error)
        /\ UNCHANGED <<OPUSLIB_AVAILABLE, construction>>
        /\ UNCHANGED <<audio_queue, counter, npackets, tpc, spc, rpc, conn,
                       chunk, sleep_left, nmsgs, curMsg, cbRunning, handed,
                       cbCount, cbArg, cbLog, skipped, lastOutcome, lastLeft,
                       sinceLeft, cancelled_in, status, lost>>
        /\ UNCHANGED <<cmdVars, reactVars, uiVars>>


\* ---------------------------------------------- transcript_ui.py, main.py
\* TranscriptWindow.is_running()
IsRunning ==
    ui_running /\ ui_root # "None"

\* _create_window in the UI thread: self.root = tk.Tk() (tk_ok: a window
\* can be made; if not, TclError ends the thread), the widgets, and
\* root.mainloop() is entered. __init__ has set root to None and running to
\* True and started the thread
CreateWindow(tk_ok) ==
    /\ ui_thread = "started"
    /\ ui_root' = IF tk_ok THEN "Tk" ELSE ui_root
    /\ ui_thread' = IF tk_ok THEN "mainloop" ELSE "ended"
    /\ UNCHANGED <<ui_running, window_closed, monitor>>
    /\ UNCHANGED <<streamVars, cmdVars, reactVars, decVars>>

\* _on_closing, the WM_DELETE_WINDOW handler: the user closes the window
OnClosing ==
    /\ ui_thread = "mainloop"
    /\ ui_running' = FALSE
    /\ ui_root' = "None"
    /\ ui_thread' = "ended"
    /\ window_closed' = TRUE
    /\ UNCHANGED monitor
    /\ UNCHANGED <<streamVars, cmdVars, reactVars, decVars>>

\* monitor_ui, in the event loop: a poll that finds is_running() false
\* leaves the while loop, and omi_task and transcribe_task are cancelled (a
\* poll that finds it true sleeps 0.5 s and changes nothing); cancel() on a
\* task that has ended does nothing
MonitorUi ==
    /\ monitor = "polling"
    /\ ~IsRunning
    /\ monitor' = "done"
    /\ IF tpc \in {"loop_top", "connecting", "streaming", "sleeping"}
          THEN CancelTasks
          ELSE UNCHANGED streamVars
    /\ UNCHANGED <<ui_root, ui_running, ui_thread, window_closed>>
    /\ UNCHANGED <<cmdVars, reactVars, decVars>>

\* ------------------------------------------------------- specifications
InitStream ==
    /\ audio_queue = <<>>
    /\ counter = 0
    /\ npackets = 0
    /\ tpc = "loop_top"
    /\ spc = "none"
    /\ rpc = "none"
    /\ conn = "none"
    /\ chunk = 0
    /\ sleep_left = 0
    /\ nmsgs = 0
    /\ curMsg = 0
    /\ cbRunning = {}
    /\ handed = <<>>
    /\ cbCount = 0
    /\ cbArg = <<>>
    /\ cbLog = <<>>
    /\ skipped = FALSE
    /\ lastOutcome = "none"
    /\ lastLeft = "none"
    /\ sinceLeft = RETRY_DELAY
    /\ cancelled_in = [tpc |-> "none"]
    /\ status = "none"
    /\ lost = {}

InitCmd ==
    /\ now = 0
    /\ last_command_time = [k \in {} |-> 0]
    /\ launches = <<>>
    /\ dispatch = [n |-> 0, key |-> <<>>, time |-> 0, prior |-> -1,
                   outcome |-> "none"]

\* memory.py after init_memory_storage, no transcript handled yet
InitReact ==
    /\ mpc = "idle"
    /\ nproc = 0
    /\ processed = [t |-> 0]
    /\ local_store = <<>>

\* no packet decoded yet
InitDec ==
    /\ ndecodes = 0
    /\ decoded = [packet |-> 0, error |-> FALSE, after_error |-> FALSE]
    /\ first = <<>>

\* the transcript window is open and monitor_ui is polling it
WindowOpen ==
    /\ ui_root = "Tk"
    /\ ui_running = TRUE
    /\ ui_thread = "mainloop"
    /\ window_closed = FALSE
    /\ monitor = "polling"

\* a decoder that was constructed in the mode given by functional
Constructed ==
    /\ OPUSLIB_AVAILABLE \in BOOLEAN
    /\ functional => OPUSLIB_AVAILABLE
    /\ construction = [done |-> "yes",
                       init_error |-> OPUSLIB_AVAILABLE /\ ~functional]

\* the pipeline of main.py: packets arrive, transcribe runs (with a status
\* callback and on_transcript given); the decoder is in native mode, where a
\* packet yields a frame or, on a codec error, none
Init ==
    /\ InitStream
    /\ InitCmd
    /\ functional = TRUE
    /\ platform = "win32"
    /\ semantic_available = FALSE
    /\ InitReact
    /\ InitDec
    /\ WindowOpen
    /\ Constructed

Next ==
    \/ \E len \in {3, 4}, codec_ok \in BOOLEAN : HandleBleData(len, codec_ok)
    \/ Connect
    \/ ConnectOk
    \/ ConnectFail
    \/ GatherDone
    \/ SleepDone
    \/ Tick
    \/ Cancel
    \/ ConnectionLost
    \/ GetFrame
    \/ SendDone
    \/ \E i \in DOMAIN Messages : RecvMsg(i)
    \/ \E raised \in BOOLEAN : CallbackEnd(raised)
    \/ RecvClosed

Spec == Init /\ [][Next]_vars

\* the asyncio event loop runs every task that can go on, timers fire and a
\* connect attempt or a send ends one way or the other; nothing is assumed
\* of the transport (packets), the service (messages, closing) or the caller
FairSpec ==
    /\ Init
    /\ [][Next]_vars
    /\ WF_vars(Connect)
    /\ WF_vars(ConnectOk \/ ConnectFail)
    /\ WF_vars(GatherDone)
    /\ WF_vars(SleepDone)
    /\ WF_vars(Tick)
    /\ WF_vars(GetFrame)
    /\ WF_vars(SendDone)
    /\ WF_vars(\E raised \in BOOLEAN : CallbackEnd(raised))
    /\ WF_vars(RecvClosed)

\* command dispatches at arbitrary times, on either kind of platform
InitDispatch ==
    /\ InitStream
    /\ InitCmd
    /\ functional = TRUE
    /\ platform \in {"win32", "linux"}
    /\ semantic_available = FALSE
    /\ InitReact
    /\ InitDec
    /\ WindowOpen
    /\ Constructed

NextDispatch ==
    \/ \E command_list \in CommandLists, popen \in {"ok", "not_found", "error"} :
          ExecuteSystemCommand(command_list, popen)
    \/ ClockTick

SpecDispatch == InitDispatch /\ [][NextDispatch]_vars

\* transcripts handed to process_transcript_for_memory one after the other
\* (main.py awaits each call from the transcript callback), at arbitrary
\* times, on either kind of platform, with or without sentence_transformers
InitReactSpec ==
    /\ InitStream
    /\ InitCmd
    /\ functional = TRUE
    /\ platform \in {"win32", "linux"}
    /\ semantic_available \in BOOLEAN
    /\ InitReact
    /\ InitDec
    /\ WindowOpen
    /\ Constructed

NextReact ==
    \/ \E t \in DOMAIN Transcripts,
          model_ok \in IF semantic_available THEN BOOLEAN ELSE {FALSE},
          popen \in IF platform = "win32" THEN {"ok", "not_found", "error"}
                    ELSE {"ok"} :
          \E score \in IF model_ok THEN Scores[t] ELSE {0} :
              ProcessTranscript(t, model_ok, score, popen)
    \/ \E remote \in RemoteOutcomes, local_ok \in BOOLEAN :
          RemoteDone(remote, local_ok)
    \/ Elapse

SpecReact == InitReactSpec /\ [][NextReact]_vars

\* the same, until the UI window is closed
NextShutdown ==
    \/ NextReact
    \/ \E local_ok \in BOOLEAN : Shutdown(local_ok)

SpecShutdown == InitReactSpec /\ [][NextShutdown]_vars

\* an OmiOpusDecoder in either mode decodes packets one after the other
InitDecoderSpec ==
    /\ InitStream
    /\ InitCmd
    /\ functional \in BOOLEAN
    /\ platform = "win32"
    /\ semantic_available = FALSE
    /\ InitReact
    /\ InitDec
    /\ WindowOpen
    /\ Constructed

NextDecoder ==
    \E p \in DOMAIN Packets, codec_ok \in BOOLEAN, exc \in CodecErrors,
       samples \in CodecSamples, run \in NoiseRuns :
        DecodePacket(p, codec_ok, exc, samples, run)

SpecDecoder == InitDecoderSpec /\ [][NextDecoder]_vars

\* omi/decoder.py was imported, with or without a working opuslib; an
\* OmiOpusDecoder is constructed and decodes packets
InitConstructSpec ==
    /\ InitStream
    /\ InitCmd
    /\ functional = FALSE
    /\ platform = "win32"
    /\ semantic_available = FALSE
    /\ InitReact
    /\ InitDec
    /\ WindowOpen
    /\ OPUSLIB_AVAILABLE \in BOOLEAN
    /\ construction = [done |-> "no", init_error |-> FALSE]

NextConstruct ==
    \/ \E first_ok \in BOOLEAN, second_ok \in BOOLEAN :
          Construct(first_ok, second_ok)
    \/ NextDecoder

SpecConstruct == InitConstructSpec /\ [][NextConstruct]_vars

\* main(): TranscriptWindow() has returned, its UI thread is started and has
\* not run yet; run() has created the tasks
InitUiSpec ==
    /\ InitStream
    /\ InitCmd
    /\ functional = TRUE
    /\ platform = "win32"
    /\ semantic_available = FALSE
    /\ InitReact
    /\ InitDec
    /\ Constructed
    /\ ui_root = "None"
    /\ ui_running = TRUE
    /\ ui_thread = "started"
    /\ window_closed = FALSE
    /\ monitor = "polling"

\* the UI thread, the user and monitor_ui, beside the device and the
\* connection steps of transcribe
NextUi ==
    \/ \E tk_ok \in BOOLEAN : CreateWindow(tk_ok)
    \/ OnClosing
    \/ MonitorUi
    \/ \E len \in {3, 4}, codec_ok \in BOOLEAN : HandleBleData(len, codec_ok)
    \/ Connect
    \/ ConnectOk
    \/ ConnectFail
    \/ SleepDone
    \/ Tick

SpecUi == InitUiSpec /\ [][NextUi]_vars

\* ------------------------------------------------------------------ claims
\* C1: on a supported platform, a process is launched for a command
\* signature only if no successful launch of the same signature happened
\* less than COMMAND_COOLDOWN seconds earlier: a dispatch less than 3 s after
\* the last successful launch is skipped, and a dispatch with no earlier
\* launch, or one 3 s or more ago, reaches subprocess.Popen.
C1_Cooldown ==
    /\ \A i \in DOMAIN launches : \A j \in DOMAIN launches :
          (i < j /\ launches[i][1] = launches[j][1])
              => launches[j][2] - launches[i][2] >= COMMAND_COOLDOWN
    /\ (platform = "win32" /\ dispatch.n > 0) =>
          IF dispatch.prior >= 0 /\ dispatch.time - dispatch.prior < COMMAND_COOLDOWN
             THEN /\ dispatch.outcome = "cooldown"
                  /\ LastLaunch(launches, dispatch.key) = dispatch.prior
             ELSE /\ dispatch.outcome \in {"launched", "not_found", "error"}
                  /\ dispatch.outcome = "launched"
                        => LastLaunch(launches, dispatch.key) = dispatch.time

\* a signature was launched, launched again 3 s or more later, and a third
\* dispatch less than 3 s after that was skipped
C1_Witness ==
    /\ platform = "win32"
    /\ dispatch.outcome = "cooldown"
    /\ \E i \in DOMAIN launches : \E j \in DOMAIN launches :
          /\ i < j
          /\ launches[i][1] = dispatch.key
          /\ launches[j][1] = dispatch.key
          /\ launches[j][2] = launches[i][2] + COMMAND_COOLDOWN

\* C2 (as claimed): after a failure while Streaming, the next connect attempt
\* starts only when the RETRY_DELAY seconds have passed since transcribe left
\* Streaming.
C2_DelayAfterStreamFailure ==
    (tpc = "connecting" /\ lastLeft = "stream_end") => sinceLeft >= RETRY_DELAY

\* C3 (as claimed): once receive_transcripts has seen the connection closed,
\* transcribe eventually leaves Streaming (for the next connect attempt, or
\* cancelled), whether or not another frame arrives in the queue.
C3_LostStreamIsLeft ==
    (tpc = "streaming" /\ rpc = "done") ~> (tpc # "streaming")

\* C4 (as claimed): transcribe never ends by raising, and after every connect
\* failure or loss of the stream it starts another connect attempt, unless it
\* is cancelled.
C4_RetriesForever ==
    /\ [](tpc # "raised")
    /\ (tpc = "sleeping" \/ (tpc = "streaming" /\ conn = "closed"))
          ~> (tpc \in {"connecting", "cancelled"})

\* C5: the frames passed to ws.send are, in order, the frames pushed by
\* handle_ble_data (frame k is the k-th frame pushed): each was pushed, none
\* comes twice or out of order, and the k-th pop yields the k-th push.
C5_Fifo ==
    /\ \A i \in DOMAIN handed : handed[i] \in 1..counter
    /\ \A i \in DOMAIN handed : \A j \in DOMAIN handed :
          i < j => handed[i] < handed[j]
    /\ \A i \in DOMAIN handed : handed[i] = i
    /\ \A i \in DOMAIN audio_queue : audio_queue[i] = Len(handed) + i

\* three frames were sent, the last ones on a connection made after an
\* earlier stream had ended
C5_Witness ==
    /\ Len(handed) = 3
    /\ lastLeft = "stream_end"
    /\ tpc = "streaming"
    /\ spc = "get"

\* C6 (as claimed): a packet that arrives when the queue holds Capacity frames
\* is dropped and the queued frames are unchanged.
C6_DropWhenFull ==
    [][(npackets' = npackets + 1 /\ Len(audio_queue) >= Capacity)
          => audio_queue' = audio_queue]_vars

\* C7 (as claimed): the queue never holds more than a finite capacity; for
\* the candidate Capacity, and likewise for any other, Capacity + 1 packets
\* that arrive while nothing is popped exceed it.
C7_QueueBounded ==
    Len(audio_queue) <= Capacity

\* C8: what the claim expects for each message of Messages: the number of
\* on_transcript calls and the argument of the call.  A message with an
\* "error" key counts as an {error} message whatever else it carries.
ExpectedCalls == <<0, 0, 0, 0, 1, 1, 0, 0, 0, 0, 0, 0, 0>>

ExpectedArg == <<
    <<>>, <<>>, <<>>, <<>>,
    <<"h", "i">>,
    <<"h", " ", "i">>,
    <<>>, <<>>, <<>>, <<>>, <<>>, <<>>, <<>>
>>

\* C8: for every inbound message, on_transcript is called exactly once, with
\* the trimmed text, if the first alternative's transcript is non-empty after
\* trimming, and not at all for any other message; no message gets two calls.
C8_CallbackOncePerTranscript ==
    /\ curMsg # 0 =>
          /\ cbCount = ExpectedCalls[curMsg]
          /\ cbArg = ExpectedArg[curMsg]
          /\ (cbCount = 1) = (cbLog # <<>> /\ cbLog[Len(cbLog)] = nmsgs)
    /\ \A i \in DOMAIN cbLog : \A j \in DOMAIN cbLog :
          i # j => cbLog[i] # cbLog[j]

\* a transcript with blanks around it was received and passed on, trimmed
C8_Witness ==
    /\ curMsg = 6
    /\ cbCount = 1
    /\ cbArg = <<"h", " ", "i">>

\* C9: at most one on_transcript call runs at a time, it is the call for the
\* message received last, and calls are made in the order of the messages,
\* also across reconnects.
C9_SequentialCallbacks ==
    /\ Cardinality(cbRunning) <= 1
    /\ cbRunning # {} => (rpc = "callback" /\ cbRunning = {cbLog[Len(cbLog)]})
    /\ \A i \in DOMAIN cbLog : \A j \in DOMAIN cbLog :
          i < j => cbLog[i] < cbLog[j]

\* the call for a second message runs, on a second connection, after the
\* call for the first message
C9_Witness ==
    /\ cbLog = <<1, 2>>
    /\ cbRunning = {2}
    /\ lastLeft = "stream_end"

\* C10: after a message that was skipped on an error (malformed payload,
\* {error} message, exception of the callback) the receive loop is back at
\* "async for msg in ws" on the same, still open connection, and it stays
\* alive for the messages that follow.
C10_ErrorsAreSkipped ==
    /\ (tpc = "streaming" /\ conn = "open" /\ LoopError(lastOutcome))
          => rpc = "iter"
    /\ (tpc = "streaming" /\ conn = "open" /\ skipped)
          => rpc \in {"iter", "callback"}

\* a message was processed, and its callback returned, after an earlier
\* message of the same connection had been skipped on an error
C10_Witness ==
    /\ skipped
    /\ lastOutcome = "callback_ok"
    /\ conn = "open"
    /\ rpc = "iter"

\* the last transcript matched a command: detect_hot_command went as far as
\* calling _execute_system_command for it
CommandMatched ==
    /\ nproc > 0
    /\ processed.command.semantic_calls + processed.command.literal_calls > 0

\* C11: command priority. A transcript that matches a command intent (the
\* semantic winner, or a wake word plus a command pattern) never leads to
\* hot-phrase matching or to a memory being created, whatever the cooldown
\* state and the platform.
C11_CommandPriority ==
    CommandMatched =>
        /\ processed.category = "not_run"
        /\ processed.remote = "not_run"
        /\ local_store = processed.store_before

\* the transcripts whose lower-cased text contains a wake-word variant
WithWakeWord ==
    {t \in DOMAIN Transcripts :
        \E k \in DOMAIN omi_triggers :
            In(omi_triggers[k], lower(Transcripts[t]))}

\* the transcripts whose lower-cased text contains a notepad pattern
WithPattern ==
    {t \in DOMAIN Transcripts :
        \E k \in DOMAIN notepad_patterns :
            In(notepad_patterns[k], lower(Transcripts[t]))}

\* C12: in the literal tier detect_hot_command launches the command only if
\* the lower-cased transcript contains a wake-word variant and a command
\* pattern; "Oh, me." and "Hey, army." (transcripts 5 and 6) never launch it.
C12_LiteralNeedsBoth ==
    (nproc > 0 /\ processed.command.literal_calls > 0) =>
        /\ processed.t \in WithWakeWord \cap WithPattern
        /\ processed.t \notin {5, 6}

\* "Army. Open notepad." was launched by the literal tier
C12_Witness ==
    /\ nproc > 0
    /\ processed.t = 7
    /\ processed.command.literal_calls = 1
    /\ processed.command.result = "Executed: open notepad"
    /\ Len(launches) = 1

\* C13: a transcript that contains no wake-word variant never triggers a
\* command: detect_hot_command yields no match for it, whether the semantic
\* tier is available or not.
C13_NoWakeWordNoCommand ==
    (nproc > 0 /\ processed.t \notin WithWakeWord) =>
        processed.command.result = "None"

\* C14: on a supported platform (where Popen can start notepad) every
\* transcript with a wake-word variant and a notepad pattern gets an
\* "Executed" result from detect_hot_command, also when several such
\* transcripts are processed one right after another.
C14_WakeAndPatternExecutes ==
    (/\ nproc > 0
     /\ processed.t \in WithWakeWord \cap WithPattern
     /\ platform = "win32"
     /\ processed.command.outcome \notin {"not_found", "error"}) =>
        processed.command.result \in
            {"Executed: open notepad", "Executed: Open Windows Notepad"}

\* the entries of HOT_PHRASES whose phrase occurs in the transcript,
\* whatever the case of its letters
Occurring(t) ==
    {k \in DOMAIN HOT_PHRASES : In(HOT_PHRASES[k][1], lower(Transcripts[t]))}

\* the category of the first of them in declaration order
FirstCategory ==
    [t \in DOMAIN Transcripts |->
        IF Occurring(t) = {} THEN "None"
        ELSE HOT_PHRASES[CHOOSE k \in Occurring(t) :
                            \A j \in Occurring(t) : k <= j][2]]

MemoryDispatched ==
    /\ nproc > 0
    /\ processed.remote \in RemoteOutcomes

\* the remote write of the last dispatch failed: a status other than 200,
\* a network error or a timeout (or a 200 whose body is not the JSON object
\* the wire contract asks for)
RemoteFailed ==
    processed.remote \in {"status", "network_error", "timeout", "bad_body"}

\* C16: create_memory attempts the remote write first and the local append
\* only if the remote write failed; it reports success iff the remote write
\* or the local append succeeded.
C16_RemoteFirstLocalFallback ==
    /\ (nproc > 0 /\ processed.remote = "pending") =>
            /\ processed.local = "not_run"
            /\ local_store = processed.store_before
    /\ MemoryDispatched =>
            /\ processed.local # "not_run" <=> RemoteFailed
            /\ processed.returned[1] <=>
                    (processed.remote = "ok" \/ processed.local = "ok")

\* the remote write timed out and the local append made up for it
C16_Witness ==
    /\ MemoryDispatched
    /\ processed.remote = "timeout"
    /\ processed.local = "ok"
    /\ processed.returned = <<TRUE, "note">>

\* C17 as stated: a hot-phrase dispatch whose remote write fails appends
\* exactly one new entry to the local store, one whose remote write succeeds
\* appends none, and the entries already there stay as they are.
C17_OneEntryPerFailedRemote ==
    MemoryDispatched =>
        /\ Len(local_store) >= Len(processed.store_before)
        /\ SubSeq(local_store, 1, Len(processed.store_before))
                = processed.store_before
        /\ RemoteFailed =>
                Len(local_store) = Len(processed.store_before) + 1
        /\ ~RemoteFailed => local_store = processed.store_before

\* C17, amended: a dispatch whose remote write fails appends exactly one
\* new entry (that of the transcript) when the local append succeeds and
\* none when the local append fails too; one whose remote write succeeds
\* appends none; the entries already there stay as they are.
C17_OneEntryPerLocalAppend ==
    MemoryDispatched =>
        /\ (RemoteFailed /\ processed.local = "ok") =>
                local_store = Append(processed.store_before,
                                     <<processed.t, processed.category>>)
        /\ (RemoteFailed /\ processed.local = "failed") =>
                local_store = processed.store_before
        /\ ~RemoteFailed => local_store = processed.store_before

\* a second entry was appended behind the first
C17_Witness ==
    /\ MemoryDispatched
    /\ RemoteFailed
    /\ processed.local = "ok"
    /\ Len(processed.store_before) = 1
    /\ Len(local_store) = 2

\* C18: for every raw packet of length 3 or less decode_packet returns an
\* empty frame, in native and in fallback mode alike, without calling the
\* codec or the synthesizer.
C18_HeaderOnlyIsEmpty ==
    (ndecodes > 0 /\ Len(Packets[decoded.packet]) <= 3) =>
        /\ decoded.frame = <<>>
        /\ decoded.path \notin {"native", "synthesis", "noise"}
        /\ ~decoded.error

\* a packet that is just the 3-byte header was decoded
C18_Witness ==
    /\ ndecodes > 0
    /\ Len(Packets[decoded.packet]) = 3
    /\ decoded.frame = <<>>

\* C19: fallback-mode decode is deterministic: for a packet with a
\* non-empty payload two calls of decode_packet return byte-identical
\* frames, whatever was decoded in between.
C19_FallbackDeterministic ==
    (/\ ~functional
     /\ ndecodes > 0
     /\ Len(Packets[decoded.packet]) >= 4) =>
        decoded.frame = first[decoded.packet]

\* C20: the codec mode of a decoder instance is fixed at construction: no
\* decode_packet call, whatever its payload or error, changes functional.
C20_ModeIsFixed ==
    [][functional' = functional]_vars

\* a native decoder went on after a codec error
C20_Witness ==
    /\ functional
    /\ ndecodes >= 2
    /\ decoded.error

\* C21: constructing the codec engine never fails: any failure to load or
\* initialize the native codec, at the import-time probe or when the
\* OmiOpusDecoder instance initializes its decoder, results in a
\* constructed instance whose mode is fallback.
C21_ConstructionNeverFails ==
    /\ construction.done # "raised"
    /\ (construction.done = "yes" /\
            (~OPUSLIB_AVAILABLE \/ construction.init_error)) => ~functional

\* C22: every non-empty frame returned by decode_packet, in native and in
\* fallback mode, is a whole number of 16-bit samples and has the canonical
\* size of 320 samples (640 bytes); the return value carries no mark that
\* could tell a frame of another size apart.
C22_CanonicalFrames ==
    (ndecodes > 0 /\ decoded.frame # <<>>) =>
        /\ Len(decoded.frame) % 2 = 0
        /\ Len(decoded.frame) = 2 * 320

\* C28: in native mode a codec error on any payload makes decode_packet
\* return an empty frame; no exception escapes decode_packet, and the
\* decoder decodes the following packets as before.
C28_CodecErrorIsEmptyFrame ==
    /\ (ndecodes > 0 /\ decoded.error) =>
            /\ decoded.frame = <<>>
            /\ ~decoded.escaped
    /\ (ndecodes > 0 /\ decoded.after_error) =>
            /\ functional
            /\ (decoded.path = "native" /\ ~decoded.error) =>
                    decoded.frame # <<>>

\* a packet was decoded by the codec after an earlier codec error
C28_Witness ==
    /\ ndecodes > 1
    /\ decoded.after_error
    /\ decoded.path = "native"
    /\ ~decoded.error
    /\ Len(decoded.frame) = 640

\* C25: whenever a command dispatch is not on cooldown and is executed on a
\* supported platform, the cooldown entry of its signature is set to the
\* time of that dispatch, whether or not the process launch reports a
\* failure.
C25_CooldownSetOnExecution ==
    dispatch.outcome \in {"launched", "not_found", "error"} =>
        /\ dispatch.key \in DOMAIN last_command_time
        /\ last_command_time[dispatch.key] = dispatch.time

\* C29: on a platform other than win32 _execute_system_command reports
\* failure without calling the process launcher, and leaves the cooldown
\* table unchanged.
C29_UnsupportedPlatform ==
    platform # "win32" =>
        /\ dispatch.outcome \in {"none", "unsupported"}
        /\ launches = <<>>
        /\ last_command_time = <<>>

\* commands were dispatched on linux
C29_Witness ==
    /\ platform = "linux"
    /\ dispatch.n >= 2
    /\ dispatch.outcome = "unsupported"

\* the last transcript's command was suppressed by the cooldown, and
\* process_transcript_for_memory has returned
SuppressedByCooldown ==
    /\ nproc > 0
    /\ processed.command.outcome = "cooldown"
    /\ processed.returned # <<>>

\* C26: when a command dispatch is suppressed by cooldown, the outcome that
\* process_transcript_for_memory returns reports it as "on cooldown": it
\* differs from the outcome of a transcript that matched nothing, (False,
\* None), and from that of a memory creation, (success, category).
C26_CooldownIsReported ==
    SuppressedByCooldown =>
        /\ processed.returned # <<FALSE, "None">>
        /\ processed.returned[2] \notin
                {HOT_PHRASES[k][2] : k \in DOMAIN HOT_PHRASES}

\* C27: with a model available match_semantic_intent returns the intent iff
\* the best score is at least 0.80; for a best score in [0.70, 0.80) or
\* below 0.70 it returns no intent and the semantic tier fires nothing.
C27_SemanticThreshold ==
    (nproc > 0 /\ processed.command.best_score >= 0) =>
        /\ processed.command.intent_name = "open_notepad"
                <=> processed.command.best_score >= 80
        /\ processed.command.best_score < 80 =>
                /\ processed.command.intent_name = "none"
                /\ processed.command.semantic_calls = 0

\* a transcript scored exactly 0.80 and was launched by the semantic tier
C27_Witness ==
    /\ nproc > 0
    /\ processed.command.best_score = 80
    /\ processed.command.intent_name = "open_notepad"
    /\ processed.command.result = "Executed: Open Windows Notepad"

\* C24: cancelling the pipeline while a transcript callback's remote memory
\* write is in flight does not abort that write: it runs until it completes
\* or times out, with its local fallback if it failed, before the storage
\* client is closed.
C24_WriteSurvivesShutdown ==
    (mpc = "closed" /\ nproc > 0 /\ processed.remote # "not_run") =>
        /\ processed.remote \in RemoteOutcomes
        /\ processed.remote # "ok" => processed.local # "not_run"

\* C30: the status sink is advisory: whatever the status callback does,
\* raising an error included, transcribe makes the connect / stream / retry
\* transitions it makes with a callback that does nothing (which never
\* leaves a connection attempt over a status call), and keeps retrying.
C30_StatusIsAdvisory ==
    /\ tpc # "raised"
    /\ lastLeft # "status_error"

\* the task running transcribe has been cancelled
CancelRequested ==
    cancelled_in.tpc # "none"

\* C23: once the transcribe task is cancelled, from any state (connecting,
\* streaming with send_audio waiting on the queue or sending, receiving or
\* running the transcript callback, sleeping in the retry delay), it
\* terminates, and afterwards it makes no connect attempt, pops no frame
\* and sends nothing.
C23_CancellationObserved ==
    /\ [](CancelRequested =>
            /\ tpc = "cancelled"
            /\ spc = "none"
            /\ rpc = "none"
            /\ conn = "none"
            /\ cbRunning = {})
    /\ [][CancelRequested =>
            /\ tpc' = "cancelled"
            /\ handed' = handed
            /\ Len(audio_queue') >= Len(audio_queue)]_vars

\* the task was cancelled while send_audio was sending and the transcript
\* callback was running, with a frame left in the queue
C23_Witness ==
    /\ tpc = "cancelled"
    /\ cancelled_in = [tpc |-> "streaming", spc |-> "send", rpc |-> "callback"]
    /\ audio_queue # <<>>
    /\ npackets = MaxPackets

\* transcribe is between a failed connect attempt and the next connection
AfterConnectFailure ==
    /\ lastLeft = "connect_failed"
    /\ tpc \in {"sleeping", "loop_top", "connecting"}

\* C31: a failed connect attempt ends in the except handler, which calls the
\* status callback with the "connection lost, retrying" message; the next
\* connect attempt does not start before RETRY_DELAY seconds have passed
\* since the failure; and from the failure to the next established
\* connection no frame is popped from the queue or sent.
C31_RetryDelayAfterConnectFailure ==
    /\ [](AfterConnectFailure =>
             /\ spc = "none"
             /\ conn = "none"
             /\ tpc = "sleeping" => status = "retrying"
             /\ tpc = "connecting" => sinceLeft >= RETRY_DELAY)
    /\ [][(tpc = "connecting" /\ lastLeft' = "connect_failed"
              /\ sinceLeft' = 0)
             => /\ status' = "retrying"
                /\ tpc' \in {"sleeping", "raised"}
                /\ tpc' = "sleeping" => sleep_left' = RETRY_DELAY]_vars
    /\ [][AfterConnectFailure
             => /\ handed' = handed
                /\ Len(audio_queue') >= Len(audio_queue)]_vars

\* the connect attempt after a failed one has started, five seconds later,
\* while frames pushed in the meantime are still in the queue
C31_Witness ==
    /\ AfterConnectFailure
    /\ tpc = "connecting"
    /\ status = "connecting"
    /\ sinceLeft = RETRY_DELAY
    /\ Len(audio_queue) = 2
    /\ handed = <<>>

\* frames whose ws.send call returned
Sent ==
    {handed[i] : i \in DOMAIN handed} \ (lost \cup {chunk})

\* no frame is passed to ws.send twice, and a frame whose send raised is
\* not in the queue again
NeverResent ==
    /\ \A i \in DOMAIN handed : \A j \in DOMAIN handed :
          i # j => handed[i] # handed[j]
    /\ \A i \in DOMAIN audio_queue :
          /\ audio_queue[i] \notin lost
          /\ \A j \in DOMAIN handed : audio_queue[i] # handed[j]

\* C32 (as claimed): no frame is transmitted twice, a frame whose send
\* raised is never queued or sent again, and at any time the frames pushed
\* are the frames sent, the frames queued and the frames lost to a failed
\* send.
C32_FrameAccounting ==
    /\ NeverResent
    /\ counter = Cardinality(Sent) + Len(audio_queue) + Cardinality(lost)

\* C32 (amended): the same, counting also the frame send_audio has popped
\* and is still sending: the frames pushed are the frames sent, the frames
\* queued, the frames lost to a failed send and the frame in flight, if any.
C32_FrameAccountingInFlight ==
    /\ NeverResent
    /\ lost \subseteq {handed[i] : i \in DOMAIN handed}
    /\ chunk \notin lost
    /\ counter = Cardinality(Sent) + Len(audio_queue) + Cardinality(lost)
                    + (IF chunk # 0 THEN 1 ELSE 0)

\* on a second connection: frame 1 was lost to a failed send, frame 2 was
\* sent and frame 3 is being sent
C32_Witness ==
    /\ lost = {1}
    /\ handed = <<1, 2, 3>>
    /\ chunk = 3
    /\ spc = "send"
    /\ lastLeft = "stream_end"

\* C33: send_audio and receive_transcripts exist only while transcribe is
\* inside the async with block of one connection, so at most one of each
\* and one connection are active; frames leave the queue one at a time, to
\* the send_audio of that connection; and a connection is opened only when
\* no coroutine or connection of an earlier one is left.
C33_SingleConsumer ==
    /\ [](/\ tpc # "streaming" => /\ spc = "none"
                                  /\ rpc = "none"
                                  /\ conn = "none"
                                  /\ chunk = 0
                                  /\ cbRunning = {}
          /\ tpc = "streaming" => /\ spc \in {"get", "send", "done"}
                                  /\ rpc \in {"iter", "callback", "done"}
                                  /\ conn \in {"open", "closed"})
    /\ [][(conn' = "open" /\ conn # "open")
             => /\ spc = "none"
                /\ rpc = "none"
                /\ conn = "none"
                /\ chunk = 0
                /\ cbRunning = {}]_vars
    /\ [][Len(audio_queue') < Len(audio_queue)
             => /\ tpc = "streaming"
                /\ spc = "get"
                /\ chunk = 0
                /\ audio_queue' = Tail(audio_queue)]_vars

\* a second connection with both coroutines at work, after the coroutines of
\* the first had both finished
C33_Witness ==
    /\ tpc = "streaming"
    /\ lastLeft = "stream_end"
    /\ conn = "open"
    /\ spc = "send"
    /\ rpc = "callback"
    /\ Len(handed) = 2

\* the last transcript led to a process launch
CommandLaunched ==
    /\ nproc > 0
    /\ processed.command.outcome = "launched"

\* C34: one process_transcript_for_memory call launches at most one
\* process, whichever of the semantic and the literal tier matched and
\* however many patterns the transcript holds, and dispatches at most one
\* memory, which adds at most one entry to the local store; a transcript
\* that launched a command dispatches no memory.
C34_OneActionPerTranscript ==
    /\ [](/\ Len(launches) <= nproc
          /\ CommandLaunched => /\ processed.command.result # "None"
                                /\ processed.category = "not_run"
                                /\ processed.remote = "not_run"
                                /\ processed.local = "not_run"
                                /\ mpc = "idle"
                                /\ local_store = processed.store_before
          /\ nproc > 0 => Len(local_store) <= Len(processed.store_before) + 1)
    /\ [][nproc' = nproc + 1
             => /\ Len(launches') <= Len(launches) + 1
                /\ local_store' = local_store
                /\ Len(launches') > Len(launches) => mpc' = "idle"]_vars

\* "omi note this and open notepad" holds a wake word, two notepad patterns
\* and a hot phrase, and the semantic tier matched it as well: one process
\* was launched and no memory was written
C34_Witness ==
    /\ CommandLaunched
    /\ processed.t = 12
    /\ Cardinality(Patterns[12]) = 2
    /\ HotPhrase[12] # "None"
    /\ processed.command.intent_name # "none"
    /\ Len(launches) = 1
    /\ nproc = 1

\* C35: every entry of the cooldown table is the time of the last
\* successful launch of its signature, and every launched signature has
\* one; a dispatch skipped by the cooldown leaves the whole table as it
\* was; and a dispatch changes or creates no entry but that of its own
\* signature.
C35_EntryIsLastLaunch ==
    /\ [](/\ \A k \in DOMAIN last_command_time :
                last_command_time[k] = LastLaunch(launches, k)
          /\ \A i \in DOMAIN launches :
                launches[i][1] \in DOMAIN last_command_time)
    /\ [][(dispatch'.n > dispatch.n /\ dispatch'.outcome = "cooldown")
             => last_command_time' = last_command_time]_vars
    /\ [][dispatch'.n > dispatch.n
             => \A k \in DOMAIN last_command_time' \cup DOMAIN last_command_time :
                   k # dispatch'.key
                      => /\ k \in DOMAIN last_command_time
                         /\ k \in DOMAIN last_command_time'
                         /\ last_command_time'[k] = last_command_time[k]]_vars

\* two signatures have an entry, and a dispatch of one of them, later than
\* its last launch, was skipped by the cooldown and left its entry alone
C35_Witness ==
    /\ dispatch.outcome = "cooldown"
    /\ Cardinality(DOMAIN last_command_time) = 2
    /\ dispatch.time > last_command_time[dispatch.key]
    /\ \E k \in DOMAIN last_command_time :
          last_command_time[k] > last_command_time[dispatch.key]

\* the last decode_packet call ran in Fallback mode on a non-empty payload
FallbackFrame ==
    /\ ndecodes > 0
    /\ decoded.path \in {"synthesis", "noise"}

\* sample i (from 0) of a frame of little-endian two's complement 16-bit
\* samples
SampleOf(frame, i) ==
    LET u == frame[2 * i + 1] + 256 * frame[2 * i + 2]
    IN  IF u >= 32768 THEN u - 65536 ELSE u

\* C36 (as claimed): in Fallback mode the frame decoded from a non-empty
\* payload is never pure silence: at least one of its samples is not zero.
C36_NeverSilent ==
    FallbackFrame =>
        \E i \in 0..(frame_samples - 1) : SampleOf(decoded.frame, i) # 0

\* what the synthesis loop stores for every sum of two bytes and every
\* value of the envelope (the envelope has period 100 in i): the value is
\* in -12800..12700 and its two bytes read back as the value
SynthInRange ==
    \A byte1 \in 0..255 : \A byte2 \in {0, 255} : \A i \in 0..99 :
        LET val == SynthVal(byte1, byte2, i)
            pair == <<LittleEndian(val, 0), LittleEndian(val, 1)>>
        IN  /\ val \in -12800..12700
            /\ pair[1] \in 0..255
            /\ pair[2] \in 0..255
            /\ SampleOf(pair, 0) = val

\* C37: a frame made in Fallback mode has 640 bytes, which are 320
\* little-endian two's complement samples: synthesized samples lie in
\* -12800..12700, so that the clamp to the 16-bit range changes none, and
\* noise samples lie in -25..25.
C37_FallbackSamplesInRange ==
    /\ SynthInRange
    /\ FallbackFrame =>
          /\ Len(decoded.frame) = 2 * frame_samples
          /\ Len(decoded.frame) = 640
          /\ \A j \in DOMAIN decoded.frame : decoded.frame[j] \in 0..255
          /\ \A i \in 0..(frame_samples - 1) :
                SampleOf(decoded.frame, i) \in
                    IF decoded.path = "synthesis" THEN -12800..12700
                    ELSE -25..25

\* the payload of four zero bytes was synthesized: sample 0 is the lowest
\* value, -12800, stored as the bytes 0x00 0xCE
C37_Witness ==
    /\ FallbackFrame
    /\ decoded.packet = 8
    /\ decoded.path = "synthesis"
    /\ SampleOf(decoded.frame, 0) = -12800
    /\ decoded.frame[1] = 0
    /\ decoded.frame[2] = 206

\* the value the stated algorithm gives for sample i of a payload:
\* (b[i mod n] + b[(i+1) mod n] - 256) * |((17 * i) mod 100) - 50|
StatedSample(clean_data, i) ==
    LET n == Len(clean_data)
        m == (17 * i) % 100
        e == IF m >= 50 THEN m - 50 ELSE 50 - m
    IN  (clean_data[(i % n) + 1] + clean_data[((i + 1) % n) + 1] - 256) * e

\* C38 (as claimed): every sample synthesized from a payload of 4 bytes or
\* more equals the value of the stated algorithm.
C38_SynthesisAsStated ==
    (ndecodes > 0 /\ decoded.path = "synthesis") =>
        LET data == Packets[decoded.packet]
            clean_data == SubSeq(data, 4, Len(data))
        IN  \A i \in 0..(frame_samples - 1) :
                SampleOf(decoded.frame, i) = StatedSample(clean_data, i)

\* C39 (as claimed): monitor_ui cancels the tasks only after the window was
\* closed (_on_closing ran); in particular not while the UI thread is still
\* creating the window.
C39_CancelOnlyAfterClose ==
    monitor = "done" => window_closed

====
